---------------------------- MODULE Spec2Model ----------------------------
(***************************************************************************)
(* A model of kyco.controller.Controller (src/kyco/controller.py): the     *)
(* buffers and their two dispatcher threads, the listener table, the       *)
(* connection and switch registries, the NApp registry, start() and stop().*)
(***************************************************************************)
EXTENDS Integers, Sequences, FiniteSets, TLC

(***************************************************************************)
(* Bounds of the model.                                                    *)
(***************************************************************************)
\* events put on the buffers by the acceptor and the NApps, in total
MaxEvents == 3
\* load_napp / unload_napp calls made at run time, after construction
MaxNAppCalls == 1
\* NApp directories that os.listdir finds under options.napps
MaxInstalled == 1
\* the same two bounds where the claims are about loading and unloading
MaxReloadCalls == 2
MaxListed == 2
\* calls of send_to, remove_connection and remove_switch
MaxFacadeCalls == 2

(***************************************************************************)
(* Event names and listener patterns.  A name is kept as a string in the   *)
(* state; Chars gives the characters re.match works on.                    *)
(***************************************************************************)
ShutdownName == "kyco/core.shutdown"

NewConnectionPattern == "kyco/core.connection.new"

ConnectionPattern == "kytos/core\\.connection\\..*"

Chars(s) ==
  CASE s = "x" -> <<"x">>
    [] s = "y" -> <<"y">>
    [] s = "a.b" -> <<"a",".","b">>
    [] s = "kyco/core.shutdown" ->
         <<"k","y","c","o","/","c","o","r","e",".","s","h","u","t","d","o","w","n">>
    [] s = "kytos/core.shutdown" ->
         <<"k","y","t","o","s","/","c","o","r","e",".","s","h","u","t","d","o","w","n">>
    [] s = "kyco/core.connection.new" ->
         <<"k","y","c","o","/","c","o","r","e",".","c","o","n","n","e","c","t","i","o","n",
           ".","n","e","w">>
    [] s = "kytos/core.connection.new" ->
         <<"k","y","t","o","s","/","c","o","r","e",".","c","o","n","n","e","c","t","i","o",
           "n",".","n","e","w">>
    [] s = "kytos/core.connection.lost" ->
         <<"k","y","t","o","s","/","c","o","r","e",".","c","o","n","n","e","c","t","i","o",
           "n",".","l","o","s","t">>
    [] s = "kytos/core.other" ->
         <<"k","y","t","o","s","/","c","o","r","e",".","o","t","h","e","r">>
    [] s = "kytos/core\\.connection\\..*" ->
         <<"k","y","t","o","s","/","c","o","r","e","\\",".","c","o","n","n","e","c","t","i",
           "o","n","\\",".",".","*">>

(***************************************************************************)
(* re.match(pattern, string): the pattern has to match at the start of the *)
(* string and need not consume it.  The pattern language is the part of    *)
(* Python's that the table's keys use: a literal character, "." (any       *)
(* character; names hold no newline), a backslash-escaped character, and   *)
(* "*" after any of these.                                                 *)
(***************************************************************************)
AtomWidth(p, i) == IF p[i] = "\\" THEN 2 ELSE 1

AtomMatches(p, i, c) ==
  IF p[i] = "\\" THEN c = p[i + 1]
  ELSE IF p[i] = "." THEN TRUE
  ELSE c = p[i]

RECURSIVE MatchHere(_, _, _, _)
MatchHere(p, i, s, j) ==
  IF i > Len(p) THEN TRUE
  ELSE LET next == i + AtomWidth(p, i)
       IN IF next <= Len(p) /\ p[next] = "*"
          THEN \E k \in 0..(Len(s) - j + 1) :
                 /\ \A m \in 0..(k - 1) : AtomMatches(p, i, s[j + m])
                 /\ MatchHere(p, next + 1, s, j + k)
          ELSE /\ j <= Len(s)
               /\ AtomMatches(p, i, s[j])
               /\ MatchHere(p, next, s, j + 1)

re_match(event_regex, name) == MatchHere(Chars(event_regex), 1, Chars(name), 1)


(***************************************************************************)
(* The NApps found under options.napps.  A NApp is code outside the        *)
(* controller: its _listeners dict (pattern -> list of bound methods, in   *)
(* the dict's order) and whether it is a KycoCoreNApp.  The method "fail"  *)
(* raises when it is called; the other methods return.  The NApps of       *)
(* FailingNApps cannot be loaded: Main(controller) of a/n4 raises, start() *)
(* of a/n5 raises.  a/n6 listens to the shutdown event.  a/n7 declares a   *)
(* pattern with an empty list of methods.                                  *)
(***************************************************************************)
NAppNames == {"a/n1", "a/n2", "a/n3"}

FailingNApps == {"a/n4", "a/n5"}

AllNApps == NAppNames \cup FailingNApps

NAppListeners(napp_name) ==
  CASE napp_name = "a/n1" ->
         << [regex |-> "x", methods |-> <<"fail", "rec">>] >>
    [] napp_name = "a/n2" ->
         << [regex |-> "a.b", methods |-> <<"rec", "rec">>],
            [regex |-> ConnectionPattern, methods |-> <<"rec">>] >>
    [] napp_name = "a/n3" ->
         << [regex |-> "a.b", methods |-> <<"rec">>],
            [regex |-> "x", methods |-> <<"rec">>] >>
    [] napp_name = "a/n4" ->
         << [regex |-> "x", methods |-> <<"rec">>] >>
    [] napp_name = "a/n5" ->
         << [regex |-> "a.b", methods |-> <<"rec">>] >>
    [] napp_name = "a/n6" ->
         << [regex |-> ShutdownName, methods |-> <<"rec">>],
            [regex |-> "a.b", methods |-> <<"rec">>] >>
    [] napp_name = "a/n7" ->
         << [regex |-> "y", methods |-> <<>>],
            [regex |-> "x", methods |-> <<"rec">>] >>

\* module.load_module().Main(controller=self) raises
InitRaises(napp_name) == napp_name = "a/n4"

\* napp.start() raises
StartRaises(napp_name) == napp_name = "a/n5"

IsCoreNApp(napp_name) == napp_name = "a/n3"

\* a listener is a bound method: the object it is bound to and the method
Listener(napp_name, inst, method) ==
  [napp |-> napp_name, inst |-> inst, method |-> method]

new_connection_listener == Listener("controller", 0, "new_connection")

Raises(listener) == listener.method = "fail"

(***************************************************************************)
(* Connections (kyco.core.switch.Connection objects).  cA and cB are two   *)
(* objects for the same (ip, port); cA and cC report the same dpid.        *)
(***************************************************************************)
Conns == {"cA", "cB", "cC"}

NoConnection == "none"

NoDpid == "None"

ConnId(c) == IF c = "cC" THEN "10.0.0.2:6633" ELSE "10.0.0.1:6633"

ConnDpid(c) == IF c = "cB" THEN NoDpid ELSE "0x01"

(***************************************************************************)
(* Python dicts.  events_listeners and napps are dicts, kept here as       *)
(* sequences of entries in insertion order (the order .items() and list()  *)
(* iterate in); connections and switches are functions on their keys.      *)
(***************************************************************************)
Range(f) == {f[k] : k \in DOMAIN f}

EmptyDict == [k \in {} |-> k]

Keys(d) == {d[i].regex : i \in DOMAIN d}

\* the entry of key k in d (k is a key of d)
IndexOf(d, k) == CHOOSE i \in DOMAIN d : d[i].regex = k

ListenersOf(d, k) == d[IndexOf(d, k)].listeners

SetListeners(d, k, ls) == [d EXCEPT ![IndexOf(d, k)].listeners = ls]

RemoveAt(s, i) == SubSeq(s, 1, i - 1) \o SubSeq(s, i + 1, Len(s))

PopKey(d, k) == RemoveAt(d, IndexOf(d, k))

\* list.remove(x) removes the first item equal to x (x is in the list)
ListRemove(ls, x) == RemoveAt(ls, CHOOSE i \in DOMAIN ls :
                                    ls[i] = x /\ \A j \in 1..(i - 1) : ls[j] # x)

NAppLoaded(reg) == {reg[i].name : i \in DOMAIN reg}

NAppInst(reg, napp_name) ==
  reg[CHOOSE i \in DOMAIN reg : reg[i].name = napp_name].inst

\* self.napps[napp_name] = napp: a present key keeps its place in the dict
NAppSet(reg, napp_name, inst) ==
  IF napp_name \in NAppLoaded(reg)
  THEN [reg EXCEPT ![CHOOSE i \in DOMAIN reg : reg[i].name = napp_name].inst = inst]
  ELSE Append(reg, [name |-> napp_name, inst |-> inst])

NAppPop(reg, napp_name) ==
  RemoveAt(reg, CHOOSE i \in DOMAIN reg : reg[i].name = napp_name)

(***************************************************************************)
(* load_napp: lines 453-456, the merge of the NApp's listeners.            *)
(***************************************************************************)
BoundMethods(napp_name, inst, methods) ==
  [i \in DOMAIN methods |-> Listener(napp_name, inst, methods[i])]

Subscribe(tbl, napp_name, inst, entry) ==
  LET t1 == IF entry.regex \in Keys(tbl) THEN tbl
            ELSE Append(tbl, [regex |-> entry.regex, listeners |-> <<>>])
  IN SetListeners(t1, entry.regex,
       ListenersOf(t1, entry.regex) \o BoundMethods(napp_name, inst, entry.methods))

RECURSIVE SubscribeAll(_, _, _, _)
SubscribeAll(tbl, napp_name, inst, entries) ==
  IF entries = <<>> THEN tbl
  ELSE SubscribeAll(Subscribe(tbl, napp_name, inst, Head(entries)),
                    napp_name, inst, Tail(entries))

\* a call of a NApp's constructor, start() or shutdown(), and whether it
\* returned (ok) or raised
NAppCall(op, napp_name, inst, ok) ==
  [op |-> op, napp |-> napp_name, inst |-> inst, ok |-> ok]

\* load_napp(napp_name).  st is what a load or an unload works on: the
\* listener table, the NApp registry, the calls made to NApps, the number of
\* NApp instances constructed, and whether an exception has left the call
load_napp_result(st, napp_name) ==
  LET inst == st.ninst + 1
      s0 == [st EXCEPT !.ninst = inst,
                       !.nlog = Append(@, NAppCall("init", napp_name, inst,
                                                   ~InitRaises(napp_name)))]
  IN IF InitRaises(napp_name) THEN [s0 EXCEPT !.raised = TRUE]
     ELSE [s0 EXCEPT
             !.reg = NAppSet(@, napp_name, inst),
             !.tbl = SubscribeAll(@, napp_name, inst, NAppListeners(napp_name)),
             !.nlog = Append(@, NAppCall("start", napp_name, inst,
                                         ~StartRaises(napp_name))),
             !.raised = StartRaises(napp_name)]

(***************************************************************************)
(* unload_napp: napps.pop raises KeyError for a name that is not loaded;   *)
(* list.remove raises ValueError for a listener that is not in the list,   *)
(* and events_listeners[event_type] raises KeyError for a missing key.  An *)
(* exception leaves what was done before it.                               *)
(***************************************************************************)
RECURSIVE RemoveListeners(_, _, _)
RemoveListeners(st, regex, ls) ==
  IF st.raised \/ ls = <<>> THEN st
  ELSE IF regex \notin Keys(st.tbl)
          \/ Head(ls) \notin Range(ListenersOf(st.tbl, regex))
       THEN [st EXCEPT !.raised = TRUE]
       ELSE RemoveListeners(
              [st EXCEPT !.tbl = SetListeners(st.tbl, regex,
                                   ListRemove(ListenersOf(st.tbl, regex), Head(ls)))],
              regex, Tail(ls))

\* an unload that drops the whole pattern, the listeners of others included
UnsubscribeWholeKey(st, napp_name, inst, entry) ==
  IF entry.regex \in Keys(st.tbl)
  THEN [st EXCEPT !.tbl = PopKey(@, entry.regex)]
  ELSE st

\* lines 494-497, for one item of napp._listeners
Unsubscribe(st, napp_name, inst, entry) ==
  LET s1 == RemoveListeners(st, entry.regex,
                            BoundMethods(napp_name, inst, entry.methods))
  IN IF s1.raised THEN s1
     ELSE IF entry.regex \notin Keys(s1.tbl) THEN [s1 EXCEPT !.raised = TRUE]
     ELSE IF Len(ListenersOf(s1.tbl, entry.regex)) = 0
          THEN [s1 EXCEPT !.tbl = PopKey(s1.tbl, entry.regex)]
          ELSE s1

RECURSIVE UnsubscribeAll(_, _, _, _)
UnsubscribeAll(st, napp_name, inst, entries) ==
  IF st.raised \/ entries = <<>> THEN st
  ELSE UnsubscribeAll(Unsubscribe(st, napp_name, inst, Head(entries)),
                      napp_name, inst, Tail(entries))

unload_napp_result(st, napp_name) ==
  IF napp_name \notin NAppLoaded(st.reg)
  THEN [st EXCEPT !.raised = TRUE]
  ELSE LET inst == NAppInst(st.reg, napp_name)
       IN UnsubscribeAll(
            [st EXCEPT !.reg = NAppPop(@, napp_name),
                       !.nlog = Append(@, NAppCall("shutdown", napp_name, inst, TRUE))],
            napp_name, inst, NAppListeners(napp_name))

\* an unload_napps that unloads the core NApps too
RECURSIVE UnloadEachCoreToo(_, _)
UnloadEachCoreToo(st, names) ==
  IF st.raised \/ names = <<>> THEN st
  ELSE UnloadEachCoreToo(unload_napp_result(st, Head(names)), Tail(names))

\* unload_napps: every NApp of list(self.napps) that is no core NApp
RECURSIVE UnloadEach(_, _)
UnloadEach(st, names) ==
  IF st.raised \/ names = <<>> THEN st
  ELSE IF IsCoreNApp(Head(names)) THEN UnloadEach(st, Tail(names))
       ELSE UnloadEach(unload_napp_result(st, Head(names)), Tail(names))

unload_napps_result(st) ==
  UnloadEach(st, [i \in DOMAIN st.reg |-> st.reg[i].name])

\* load_napps: load_napp for each directory os.listdir yields, in its order.
\* An exception of load_napp leaves the loops: FileNotFoundError is caught
\* around them (line 481), any other leaves load_napps
RECURSIVE LoadEach(_, _)
LoadEach(st, names) ==
  IF st.raised \/ names = <<>> THEN st
  ELSE LoadEach(load_napp_result(st, Head(names)), Tail(names))

load_napps_result(st, installed) == LoadEach(st, installed)

(***************************************************************************)
(* The state of a Controller.                                              *)
(***************************************************************************)
VARIABLES
  ctl,               \* where start() and stop() have got to
  threads,           \* _threads: the state of each thread start() makes
  put,               \* buffers: every event put on each buffer, in order
  got,               \* buffers: how many events get() has handed out
  events_listeners,  \* the listener table
  napps,             \* the NApp registry
  ninst,             \* NApp instances constructed so far
  ncalls,            \* load_napp / unload_napp calls made at run time
  connections,       \* the connection registry, (ip, port) -> Connection
  switches,          \* the switch registry, dpid -> the Switch's connection
  closed,            \* the connections whose socket has been closed
  log,               \* per buffer: the calls its dispatcher made, in order
  nlog,              \* the calls made to NApps: Main(), start(), shutdown()
  unloaded,          \* the NApp the last call unloaded, and the table before
  sent,              \* the connections send_to has written bytes to, in order
  result,            \* the outcomes of the calls of the facade, in order
  iter,              \* per buffer: where its dispatcher is in notify_listeners
  mut                \* the load or unload the main thread is in the middle of

\* what only the calls of the facade change
facade == <<sent, result>>

\* what only the steps inside notify_listeners, load_napp and unload_napp
\* change
steps == <<iter, mut>>

vars == <<ctl, threads, put, got, events_listeners, napps, ninst, ncalls,
          connections, switches, closed, log, nlog, unloaded, facade, steps>>

Buffers == {"raw", "app"}

ThreadNames == {"tcp_server", "raw_event_handler", "app_event_handler"}

\* the thread that consumes buffer b
Handler(b) == IF b = "raw" THEN "raw_event_handler" ELSE "app_event_handler"

Terminated(t) == threads[t] \in {"stopped", "crashed"}

KycoEvent(name, connection) == [name |-> name, connection |-> connection]

\* the events still on buffer b
Queue(b) == SubSeq(put[b], got[b] + 1, Len(put[b]))

Puts == Len(put["raw"]) + Len(put["app"])

\* an entry of the log: what was done, for the idx-th event of the buffer
Entry(op, idx, listener, arg) ==
  [op |-> op, idx |-> idx, listener |-> listener, arg |-> arg]

Init ==
  /\ ctl = "new"
  /\ threads = [t \in ThreadNames |-> "unstarted"]
  /\ put = [b \in Buffers |-> <<>>]
  /\ got = [b \in Buffers |-> 0]
  /\ events_listeners =
       << [regex |-> NewConnectionPattern,
           listeners |-> <<new_connection_listener>>] >>
  /\ napps = <<>>
  /\ ninst = 0
  /\ ncalls = 0
  /\ connections = EmptyDict
  /\ switches = EmptyDict
  /\ closed = {}
  /\ log = [b \in Buffers |-> <<>>]
  /\ nlog = <<>>
  /\ unloaded = <<>>
  /\ sent = <<>>
  /\ result = <<>>
  /\ iter = [b \in Buffers |-> <<>>]
  /\ mut = <<>>

(***************************************************************************)
(* new_connection, the built-in listener.  st is the part of the state a   *)
(* listener can change: connections, closed and log.                       *)
(***************************************************************************)
DictPop(f, k) == [x \in DOMAIN f \ {k} |-> f[x]]

DictSet(f, k, v) == [x \in DOMAIN f \cup {k} |-> IF x = k THEN v ELSE f[x]]

\* Switch.disconnect(): the switch's current connection is closed
switch_disconnect(st, sw, dpid, idx) ==
  [st EXCEPT !.closed = @ \cup {sw[dpid]},
             !.log = Append(@, Entry("disconnect", idx, new_connection_listener, dpid))]

\* lines 323-325: remove_connection(connection.id) if the id is registered
remove_old_connection(st, connection, idx) ==
  IF ConnId(connection) \in DOMAIN st.connections
  THEN [st EXCEPT !.connections = DictPop(@, ConnId(connection)),
                  !.log = Append(@, Entry("remove", idx, new_connection_listener,
                                          st.connections[ConnId(connection)]))]
  ELSE st

\* lines 327-330: disconnect the switch registered under connection.dpid
disconnect_old_switch(st, sw, connection, idx) ==
  IF ConnDpid(connection) \in DOMAIN sw
  THEN switch_disconnect(st, sw, ConnDpid(connection), idx)
  ELSE st

\* line 333: self.connections[connection.id] = connection
insert_connection(st, connection, idx) ==
  [st EXCEPT !.connections = DictSet(@, ConnId(connection), connection),
             !.log = Append(@, Entry("insert", idx, new_connection_listener,
                                     connection))]

\* a new_connection that cleans up after it has registered the connection
new_connection_remove_last(st, sw, event, idx) ==
  LET connection == event.connection
      s1 == disconnect_old_switch(st, sw, connection, idx)
      s2 == insert_connection(s1, connection, idx)
  IN remove_old_connection(s2, connection, idx)

\* a new_connection that registers the connection before it disconnects
\* the old switch
new_connection_insert_first(st, sw, event, idx) ==
  LET connection == event.connection
      s1 == remove_old_connection(st, connection, idx)
      s2 == insert_connection(s1, connection, idx)
  IN disconnect_old_switch(s2, sw, connection, idx)

new_connection(st, sw, event, idx) ==
  LET connection == event.connection
      s1 == remove_old_connection(st, connection, idx)
      s2 == disconnect_old_switch(s1, sw, connection, idx)
  IN insert_connection(s2, connection, idx)

(***************************************************************************)
(* notify_listeners.  A listener is called and returns ("call", "ret") or  *)
(* raises ("call", "raise"); nothing catches the exception, so it ends the *)
(* two loops and leaves notify_listeners.                                  *)
(***************************************************************************)
Invoke(st, sw, listener, event, idx) ==
  LET s1 == [st EXCEPT !.log = Append(@, Entry("call", idx, listener, event.name))]
  IN IF Raises(listener)
     THEN [s1 EXCEPT !.log = Append(@, Entry("raise", idx, listener, event.name)),
                     !.raised = TRUE]
     ELSE LET s2 == IF listener = new_connection_listener
                    THEN new_connection(s1, sw, event, idx)
                    ELSE s1
          IN [s2 EXCEPT !.log = Append(@, Entry("ret", idx, listener, event.name))]

\* a loop that starts every listener and does not wait for it to return
InvokeEachAsync(st, sw, listeners, event, idx) ==
  [st EXCEPT !.log =
     @ \o [i \in DOMAIN listeners |-> Entry("call", idx, listeners[i], event.name)]
       \o [i \in DOMAIN listeners |-> Entry("ret", idx, listeners[i], event.name)]]

\* lines 163-164: for listener in listeners: listener(event)
RECURSIVE InvokeEach(_, _, _, _, _)
InvokeEach(st, sw, listeners, event, idx) ==
  IF st.raised \/ listeners = <<>> THEN st
  ELSE InvokeEach(Invoke(st, sw, Head(listeners), event, idx),
                  sw, Tail(listeners), event, idx)

\* lines 161-162: for event_regex, listeners in items(): if re.match(...)
RECURSIVE NotifyEach(_, _, _, _, _)
NotifyEach(st, sw, entries, event, idx) ==
  IF st.raised \/ entries = <<>> THEN st
  ELSE LET s1 == IF re_match(Head(entries).regex, event.name)
                 THEN InvokeEach(st, sw, Head(entries).listeners, event, idx)
                 ELSE st
       IN NotifyEach(s1, sw, Tail(entries), event, idx)

notify_listeners(event, b, idx) ==
  NotifyEach([connections |-> connections, closed |-> closed, log |-> log[b],
              raised |-> FALSE],
             switches, events_listeners, event, idx)

(***************************************************************************)
(* The dispatcher loops, one iteration each.                               *)
(***************************************************************************)
\* a loop that never takes an event for the sentinel
NeverShutdown(event) == FALSE

\* a loop that looks for the sentinel under the spec's name for it
IsShutdownKytos(event) == event.name = "kytos/core.shutdown"

IsShutdown(event) == event.name = ShutdownName

raw_event_handler ==
  /\ threads["raw_event_handler"] = "running"
  /\ got["raw"] < Len(put["raw"])
  /\ LET idx == got["raw"] + 1
         event == put["raw"][idx]
         st == notify_listeners(event, "raw", idx)
     IN /\ got' = [got EXCEPT !["raw"] = idx]
        /\ IF IsShutdown(event)
           THEN /\ threads' = [threads EXCEPT !["raw_event_handler"] = "stopped"]
                /\ UNCHANGED <<connections, closed, log, nlog, unloaded, facade, steps>>
           ELSE /\ threads' = [threads EXCEPT !["raw_event_handler"] =
                                 IF st.raised THEN "crashed" ELSE "running"]
                /\ connections' = st.connections
                /\ closed' = st.closed
                /\ log' = [log EXCEPT !["raw"] = st.log]
  /\ UNCHANGED <<ctl, put, events_listeners, napps, ninst, ncalls, switches,
                 nlog, unloaded, facade, steps>>

app_event_handler ==
  /\ threads["app_event_handler"] = "running"
  /\ got["app"] < Len(put["app"])
  /\ LET idx == got["app"] + 1
         event == put["app"][idx]
         st == notify_listeners(event, "app", idx)
     IN /\ got' = [got EXCEPT !["app"] = idx]
        /\ connections' = st.connections
        /\ closed' = st.closed
        /\ log' = [log EXCEPT !["app"] = st.log]
        /\ threads' = [threads EXCEPT !["app_event_handler"] =
                         IF st.raised THEN "crashed"
                         ELSE IF IsShutdown(event) THEN "stopped"
                         ELSE "running"]
  /\ UNCHANGED <<ctl, put, events_listeners, napps, ninst, ncalls, switches,
                 nlog, unloaded, facade, steps>>

(***************************************************************************)
(* The producers of events: the acceptor puts connection.new events on     *)
(* raw, NApps put events on either buffer.                                 *)
(***************************************************************************)
buffer_put(b, event) ==
  /\ Puts < MaxEvents
  /\ put' = [put EXCEPT ![b] = Append(@, event)]
  /\ UNCHANGED <<ctl, threads, got, events_listeners, napps, ninst, ncalls,
                 connections, switches, closed, log, nlog, unloaded, facade,
                 steps>>

\* KycoBuffers.send_stop_signal(): the sentinel goes on every buffer
send_stop_signal(bufs) ==
  [b \in Buffers |-> Append(bufs[b], KycoEvent(ShutdownName, NoConnection))]

\* a NApp registers the Switch of a connection that reported its dpid
register_switch(c) ==
  /\ ConnId(c) \in DOMAIN connections
  /\ connections[ConnId(c)] = c
  /\ ConnDpid(c) # NoDpid
  /\ IF ConnDpid(c) \in DOMAIN switches THEN switches[ConnDpid(c)] # c ELSE TRUE
  /\ switches' = DictSet(switches, ConnDpid(c), c)
  /\ UNCHANGED <<ctl, threads, put, got, events_listeners, napps, ninst, ncalls,
                 connections, closed, log, nlog, unloaded, facade, steps>>

(***************************************************************************)
(* send_to, remove_connection and remove_switch, called by NApps while the *)
(* controller runs.  A call adds its outcome to result: the value it       *)
(* returned or the exception that left it.                                 *)
(***************************************************************************)
\* the (ip, port) tuples and the dpid strings the calls are made with; no
\* Connection has the id 10.0.0.3:6633, no Switch the dpid 0xff
ConnIds == {"10.0.0.1:6633", "10.0.0.3:6633"}

Dpids == {"0x01", "0xff"}

\* isinstance(destination, tuple): a dpid is a string
IsTuple(destination) == destination \notin Dpids

Outcome(op, arg, ret) == [op |-> op, arg |-> arg, ret |-> ret]

\* a send_to that does nothing for a destination it does not know
send_to_silent(conns, sw, cl, destination) ==
  IF IsTuple(destination)
  THEN IF destination \notin DOMAIN conns THEN [ret |-> "None", wrote |-> <<>>]
       ELSE IF conns[destination] \in cl THEN [ret |-> "OSError", wrote |-> <<>>]
       ELSE [ret |-> "None", wrote |-> <<conns[destination]>>]
  ELSE IF destination \notin DOMAIN sw THEN [ret |-> "None", wrote |-> <<>>]
       ELSE IF sw[destination] \in cl
            THEN [ret |-> "KycoSwitchOfflineException", wrote |-> <<>>]
            ELSE [ret |-> "None", wrote |-> <<sw[destination]>>]

\* send_to(destination, message) with registries conns and sw, the sockets
\* of cl closed: how the call ends and the connections it wrote to.
\* self.connections[destination] and self.switches[destination] raise
\* KeyError, which no except clause of send_to names; socket.send on a
\* closed socket raises OSError, Switch.send KycoSwitchOfflineException
send_to_result(conns, sw, cl, destination) ==
  IF IsTuple(destination)
  THEN IF destination \notin DOMAIN conns THEN [ret |-> "KeyError", wrote |-> <<>>]
       ELSE IF conns[destination] \in cl THEN [ret |-> "OSError", wrote |-> <<>>]
       ELSE [ret |-> "None", wrote |-> <<conns[destination]>>]
  ELSE IF destination \notin DOMAIN sw THEN [ret |-> "KeyError", wrote |-> <<>>]
       ELSE IF sw[destination] \in cl
            THEN [ret |-> "KycoSwitchOfflineException", wrote |-> <<>>]
            ELSE [ret |-> "None", wrote |-> <<sw[destination]>>]

send_to(destination) ==
  /\ ctl = "started"
  /\ Len(result) < MaxFacadeCalls
  /\ LET r == send_to_result(connections, switches, closed, destination)
     IN /\ sent' = sent \o r.wrote
        /\ result' = Append(result, Outcome("send_to", destination, r.ret))
  /\ UNCHANGED <<ctl, threads, put, got, events_listeners, napps, ninst, ncalls,
                 connections, switches, closed, log, nlog, unloaded, steps>>

remove_connection(id) ==
  /\ ctl = "started"
  /\ Len(result) < MaxFacadeCalls
  /\ connections' = DictPop(connections, id)
  /\ result' = Append(result, Outcome("remove_connection", id,
                                      IF id \in DOMAIN connections
                                      THEN "True" ELSE "False"))
  /\ UNCHANGED <<ctl, threads, put, got, events_listeners, napps, ninst, ncalls,
                 switches, closed, log, nlog, unloaded, sent, steps>>

\* no return follows the try statement: a dpid that was popped gives None
remove_switch(dpid) ==
  /\ ctl = "started"
  /\ Len(result) < MaxFacadeCalls
  /\ switches' = DictPop(switches, dpid)
  /\ result' = Append(result, Outcome("remove_switch", dpid,
                                      IF dpid \in DOMAIN switches
                                      THEN "None" ELSE "False"))
  /\ UNCHANGED <<ctl, threads, put, got, events_listeners, napps, ninst, ncalls,
                 connections, closed, log, nlog, unloaded, sent, steps>>

(***************************************************************************)
(* start() and stop().                                                     *)
(***************************************************************************)
\* the listings os.listdir can give: up to n of the NApps names, in any order
Listings(names, n) ==
  {s \in UNION {[1..k -> names] : k \in 0..n} :
     \A i, j \in DOMAIN s : i # j => s[i] # s[j]}

Installed == Listings(NAppNames, MaxInstalled)

\* what load_napp and unload_napp work on, as a call finds it
NAppState ==
  [tbl |-> events_listeners, reg |-> napps, nlog |-> nlog, ninst |-> ninst,
   raised |-> FALSE]

\* the threads are started (lines 116-118), then load_napps() runs; an
\* exception of load_napps leaves start() with the threads running
start(installed) ==
  /\ ctl = "new"
  /\ threads' = [t \in ThreadNames |-> "running"]
  /\ LET st == load_napps_result(NAppState, installed)
     IN /\ events_listeners' = st.tbl
        /\ napps' = st.reg
        /\ nlog' = st.nlog
        /\ ninst' = st.ninst
  /\ ctl' = "started"
  /\ UNCHANGED <<put, got, ncalls, connections, switches, closed, log, unloaded,
                 facade, steps>>

\* lines 136-137: the server is told to leave serve_forever
stop_server ==
  /\ ctl = "started"
  /\ mut = <<>>
  /\ ctl' = "shutdown"
  /\ UNCHANGED <<threads, put, got, events_listeners, napps, ninst, ncalls,
                 connections, switches, closed, log, nlog, unloaded, facade,
                 steps>>

\* KycoServer.serve_forever returns once shutdown() was called
serve_forever_exit ==
  /\ ctl = "shutdown"
  /\ threads["tcp_server"] = "running"
  /\ threads' = [threads EXCEPT !["tcp_server"] = "stopped"]
  /\ UNCHANGED <<ctl, put, got, events_listeners, napps, ninst, ncalls,
                 connections, switches, closed, log, nlog, unloaded, facade,
                 steps>>

\* lines 138-140, once server.shutdown() has returned
stop_signal_unload ==
  /\ ctl = "shutdown"
  /\ threads["tcp_server"] # "running"
  /\ put' = send_stop_signal(put)
  /\ LET st == unload_napps_result(NAppState)
     IN /\ events_listeners' = st.tbl
        /\ napps' = st.reg
        /\ nlog' = st.nlog
        /\ ctl' = IF st.raised THEN "stop_raised" ELSE "joining"
  /\ unloaded' = <<>>
  /\ UNCHANGED <<threads, got, ninst, ncalls, connections, switches, closed, log,
                 facade, steps>>

\* a join that does not wait for its thread
JoinedWithoutWaiting(t) == threads[t] # "unstarted"

\* Thread.join() returns when the thread has terminated
Joined(t) == Terminated(t)

\* lines 142-148: join every thread, then stop() returns
stop_join ==
  /\ ctl = "joining"
  /\ \A t \in ThreadNames : Joined(t)
  /\ ctl' = "stopped"
  /\ UNCHANGED <<threads, put, got, events_listeners, napps, ninst, ncalls,
                 connections, switches, closed, log, nlog, unloaded, facade,
                 steps>>

(***************************************************************************)
(* load_napp and unload_napp called while the controller runs, at most     *)
(* calls times in all.                                                     *)
(***************************************************************************)
load_napp(napp_name, calls) ==
  /\ ctl = "started"
  /\ ncalls < calls
  /\ ncalls' = ncalls + 1
  /\ LET st == load_napp_result(NAppState, napp_name)
     IN /\ events_listeners' = st.tbl
        /\ napps' = st.reg
        /\ nlog' = st.nlog
        /\ ninst' = st.ninst
  /\ unloaded' = <<>>
  /\ UNCHANGED <<ctl, threads, put, got, connections, switches, closed, log,
                 facade, steps>>

unload_napp(napp_name, calls) ==
  /\ ctl = "started"
  /\ ncalls < calls
  /\ ncalls' = ncalls + 1
  /\ LET st == unload_napp_result(NAppState, napp_name)
     IN /\ events_listeners' = st.tbl
        /\ napps' = st.reg
        /\ nlog' = st.nlog
        /\ unloaded' = IF st.raised THEN <<>>
                       ELSE << [napp |-> napp_name, tbl |-> events_listeners] >>
  /\ UNCHANGED <<ctl, threads, put, got, ninst, connections, switches, closed,
                 log, facade, steps>>

(***************************************************************************)
(* The same code in smaller steps, as the threads interleave: a dispatcher *)
(* thread goes through notify_listeners one item of events_listeners at a  *)
(* time, the main thread through load_napp and unload_napp one item of     *)
(* napp._listeners at a time.  No lock is taken anywhere in the class.     *)
(***************************************************************************)
\* the keys of a table, in the order of the dict
KeySeq(tbl) == [i \in DOMAIN tbl |-> tbl[i].regex]

\* where a dispatcher is in the for loop of line 161: the event it has, the
\* item it looks at next, and the keys the dict had when the loop started
Iterator(idx, pos, keys) == [idx |-> idx, pos |-> pos, keys |-> keys]

\* what the main thread is in the middle of: load_napp or unload_napp of an
\* instance with the items of napp._listeners it has not come to (rest),
\* or unload_napps between two NApps; names is what is left of
\* list(self.napps) when stop() made the call
Mutation(op, napp_name, inst, rest, names) ==
  [op |-> op, napp |-> napp_name, inst |-> inst, rest |-> rest, names |-> names]

\* lines 178 and 253, with the test of line 180 for raw: the thread takes an
\* event and, unless it leaves the loop, enters notify_listeners
handler_get(b) ==
  /\ threads[Handler(b)] = "running"
  /\ iter[b] = <<>>
  /\ got[b] < Len(put[b])
  /\ LET idx == got[b] + 1
         event == put[b][idx]
     IN /\ got' = [got EXCEPT ![b] = idx]
        /\ IF b = "raw" /\ IsShutdown(event)
           THEN /\ threads' = [threads EXCEPT ![Handler(b)] = "stopped"]
                /\ iter' = iter
           ELSE /\ threads' = threads
                /\ iter' = [iter EXCEPT ![b] =
                              << Iterator(idx, 1, KeySeq(events_listeners)) >>]
  /\ UNCHANGED <<ctl, put, events_listeners, napps, ninst, ncalls, connections,
                 switches, closed, log, nlog, unloaded, facade, mut>>

\* lines 161-164, one turn of the outer for loop.  The iterator of a dict
\* raises RuntimeError when the dict has changed its size; when the items
\* are exhausted notify_listeners returns, and app tests line 259
notify_listeners_next(b) ==
  /\ iter[b] # <<>>
  /\ LET it == iter[b][1]
         event == put[b][it.idx]
         s0 == [connections |-> connections, closed |-> closed, log |-> log[b],
                raised |-> FALSE]
     IN IF Len(events_listeners) # Len(it.keys)
        THEN /\ threads' = [threads EXCEPT ![Handler(b)] = "crashed"]
             /\ iter' = [iter EXCEPT ![b] = <<>>]
             /\ log' = [log EXCEPT ![b] =
                          Append(@, Entry("RuntimeError", it.idx,
                                          new_connection_listener, event.name))]
             /\ UNCHANGED <<connections, closed>>
        ELSE IF it.pos > Len(events_listeners)
        THEN /\ threads' = [threads EXCEPT ![Handler(b)] =
                              IF b = "app" /\ IsShutdown(event)
                              THEN "stopped" ELSE "running"]
             /\ iter' = [iter EXCEPT ![b] = <<>>]
             /\ UNCHANGED <<connections, closed, log>>
        ELSE LET entry == events_listeners[it.pos]
                 st == IF re_match(entry.regex, event.name)
                       THEN InvokeEach(s0, switches, entry.listeners, event, it.idx)
                       ELSE s0
             IN /\ connections' = st.connections
                /\ closed' = st.closed
                /\ log' = [log EXCEPT ![b] = st.log]
                /\ threads' = [threads EXCEPT ![Handler(b)] =
                                 IF st.raised THEN "crashed" ELSE "running"]
                /\ iter' = [iter EXCEPT ![b] =
                              IF st.raised THEN <<>>
                              ELSE << Iterator(it.idx, it.pos + 1, it.keys) >>]
  /\ UNCHANGED <<ctl, put, got, events_listeners, napps, ninst, ncalls, switches,
                 nlog, unloaded, facade, mut>>

\* lines 450-451: the NApp is constructed and put in the registry
load_napp_begin(napp_name, calls) ==
  /\ ctl = "started"
  /\ mut = <<>>
  /\ ncalls < calls
  /\ ncalls' = ncalls + 1
  /\ ninst' = ninst + 1
  /\ nlog' = Append(nlog, NAppCall("init", napp_name, ninst + 1,
                                   ~InitRaises(napp_name)))
  /\ IF InitRaises(napp_name)
     THEN UNCHANGED <<napps, mut>>
     ELSE /\ napps' = NAppSet(napps, napp_name, ninst + 1)
          /\ mut' = << Mutation("load", napp_name, ninst + 1,
                                NAppListeners(napp_name), <<>>) >>
  /\ unloaded' = <<>>
  /\ UNCHANGED <<ctl, threads, put, got, events_listeners, connections, switches,
                 closed, log, facade, iter>>

\* lines 453-456 for one item of napp._listeners, or, when none is left,
\* line 458: napp.start()
load_napp_next ==
  /\ mut # <<>>
  /\ mut[1].op = "load"
  /\ LET m == mut[1]
     IN IF m.rest # <<>>
        THEN /\ events_listeners' =
                  Subscribe(events_listeners, m.napp, m.inst, Head(m.rest))
             /\ mut' = << [m EXCEPT !.rest = Tail(m.rest)] >>
             /\ nlog' = nlog
        ELSE /\ nlog' = Append(nlog, NAppCall("start", m.napp, m.inst,
                                              ~StartRaises(m.napp)))
             /\ mut' = <<>>
             /\ events_listeners' = events_listeners
  /\ UNCHANGED <<ctl, threads, put, got, napps, ninst, ncalls, connections,
                 switches, closed, log, unloaded, facade, iter>>

\* lines 490-491: the NApp is popped from the registry and shut down
unload_napp_begin(napp_name, calls) ==
  /\ ctl = "started"
  /\ mut = <<>>
  /\ ncalls < calls
  /\ ncalls' = ncalls + 1
  /\ IF napp_name \notin NAppLoaded(napps)
     THEN UNCHANGED <<napps, nlog, mut>>
     ELSE LET inst == NAppInst(napps, napp_name)
          IN /\ napps' = NAppPop(napps, napp_name)
             /\ nlog' = Append(nlog, NAppCall("shutdown", napp_name, inst, TRUE))
             /\ mut' = IF NAppListeners(napp_name) # <<>>
                       THEN << Mutation("unload", napp_name, inst,
                                        NAppListeners(napp_name), <<>>) >>
                       ELSE <<>>
  /\ unloaded' = <<>>
  /\ UNCHANGED <<ctl, threads, put, got, events_listeners, ninst, connections,
                 switches, closed, log, facade, iter>>

\* lines 493-497 for one item of napp._listeners; after the last item
\* unload_napp returns, to unload_napps when stop() called it
unload_napp_next ==
  /\ mut # <<>>
  /\ mut[1].op = "unload"
  /\ LET m == mut[1]
         st == Unsubscribe([tbl |-> events_listeners, raised |-> FALSE],
                           m.napp, m.inst, Head(m.rest))
     IN /\ m.rest # <<>>
        /\ events_listeners' = st.tbl
        /\ IF st.raised
           THEN /\ mut' = <<>>
                /\ ctl' = IF ctl = "unloading" THEN "stop_raised" ELSE ctl
           ELSE /\ ctl' = ctl
                /\ mut' = IF Tail(m.rest) # <<>>
                          THEN << [m EXCEPT !.rest = Tail(m.rest)] >>
                          ELSE IF ctl = "unloading"
                          THEN << Mutation("unload_napps", "", 0, <<>>, m.names) >>
                          ELSE <<>>
  /\ UNCHANGED <<threads, put, got, napps, ninst, ncalls, connections, switches,
                 closed, log, nlog, unloaded, facade, iter>>

\* lines 138 and 505: stop() puts the sentinel on the buffers and
\* unload_napps takes list(self.napps)
stop_send_stop_signal ==
  /\ ctl = "shutdown"
  /\ threads["tcp_server"] # "running"
  /\ put' = send_stop_signal(put)
  /\ ctl' = "unloading"
  /\ mut' = << Mutation("unload_napps", "", 0, <<>>,
                        [i \in DOMAIN napps |-> napps[i].name]) >>
  /\ UNCHANGED <<threads, got, events_listeners, napps, ninst, ncalls,
                 connections, switches, closed, log, nlog, unloaded, facade, iter>>

\* lines 505-507, one turn of the for loop: a core NApp is passed over, the
\* unload of any other begins; after the last turn stop() goes on to join
unload_napps_next ==
  /\ mut # <<>>
  /\ mut[1].op = "unload_napps"
  /\ LET m == mut[1]
     IN IF m.names = <<>>
        THEN /\ ctl' = "joining"
             /\ mut' = <<>>
             /\ UNCHANGED <<napps, nlog>>
        ELSE IF IsCoreNApp(Head(m.names))
        THEN /\ mut' = << [m EXCEPT !.names = Tail(m.names)] >>
             /\ UNCHANGED <<ctl, napps, nlog>>
        ELSE LET n == Head(m.names)
                 inst == NAppInst(napps, n)
             IN /\ napps' = NAppPop(napps, n)
                /\ nlog' = Append(nlog, NAppCall("shutdown", n, inst, TRUE))
                /\ mut' = IF NAppListeners(n) # <<>>
                          THEN << Mutation("unload", n, inst, NAppListeners(n),
                                           Tail(m.names)) >>
                          ELSE << [m EXCEPT !.names = Tail(m.names)] >>
                /\ ctl' = ctl
  /\ UNCHANGED <<threads, put, got, events_listeners, ninst, ncalls, connections,
                 switches, closed, log, unloaded, facade, iter>>

(***************************************************************************)
(* The specifications.  They differ in the events the producers put.       *)
(***************************************************************************)
\* NApps put named events on raw and app
Named(names) == {<<b, KycoEvent(n, NoConnection)>> : b \in Buffers, n \in names}

\* the acceptor puts a connection.new event on raw for each socket it accepts
Accepted(conns) == {<<"raw", KycoEvent(NewConnectionPattern, c)>> : c \in conns}

\* the steps of a controller whose producers put the events of produced,
\* whose NApps directory holds one of listings, and on which load_napp and
\* unload_napp are called for the NApps of names, at most calls times
NextWith(produced, names, listings, calls) ==
  \/ \E installed \in listings : start(installed)
  \/ stop_server
  \/ serve_forever_exit
  \/ stop_signal_unload
  \/ stop_join
  \/ raw_event_handler
  \/ app_event_handler
  \/ \E p \in produced : buffer_put(p[1], p[2])
  \/ \E c \in Conns : register_switch(c)
  \/ \E n \in names : load_napp(n, calls)
  \/ \E n \in names : unload_napp(n, calls)

NextOver(produced) == NextWith(produced, NAppNames, Installed, MaxNAppCalls)

\* events for listeners that raise and listeners that share a pattern
Next == NextOver(Named({"x", "a.b"}) \cup Accepted({"cA"}))

\* the sentinel, and a name that resembles it, among ordinary events
NextShutdown ==
  NextOver(Named({"a.b", ShutdownName, "kytos/core.shutdown"}) \cup Accepted({"cA"}))

\* connections that share an (ip, port) or a dpid
NextConn == NextOver(Accepted(Conns))

\* the names of the acceptor's events as NApps subscribe to them
NextMatch ==
  NextOver(Named({"kytos/core.connection.new", "kytos/core.connection.lost",
                  "kytos/core.other"}) \cup Accepted({"cA"}))

Spec == Init /\ [][Next]_vars

SpecShutdown == Init /\ [][NextShutdown]_vars

\* ENABLED <<raw_event_handler>>_vars and ENABLED <<app_event_handler>>_vars:
\* the thread runs and its buffer holds an event
CanTake(b) == threads[Handler(b)] = "running" /\ got[b] < Len(put[b])

\* WF_vars(raw_event_handler) /\ WF_vars(app_event_handler) with ENABLED
\* written out: a dispatcher thread that stays able to take an event takes it
FairShutdown ==
  /\ Init /\ [][NextShutdown]_vars
  /\ ([]<>(~CanTake("raw")) \/ []<><<raw_event_handler>>_vars)
  /\ ([]<>(~CanTake("app")) \/ []<><<app_event_handler>>_vars)

SpecConn == Init /\ [][NextConn]_vars

SpecMatch == Init /\ [][NextMatch]_vars

\* NApps that load and NApps that fail to, listed, loaded and unloaded
NextNApps ==
  NextWith(Accepted({"cA"}), AllNApps, Listings(AllNApps, MaxListed), MaxReloadCalls)

SpecNApps == Init /\ [][NextNApps]_vars

\* a NApp that listens to the shutdown event; the event on both buffers
NextLoops ==
  NextWith(Named({"a.b", ShutdownName}) \cup Accepted({"cA"}), {"a/n6"},
           Listings({"a/n6"}, MaxInstalled), MaxNAppCalls)

SpecLoops == Init /\ [][NextLoops]_vars

\* a NApp that declares a pattern with no method, beside one that shares its
\* other pattern
NextEmpty ==
  NextWith(Accepted({"cA"}), {"a/n1", "a/n7"},
           Listings({"a/n1", "a/n7"}, MaxListed), MaxReloadCalls)

SpecEmpty == Init /\ [][NextEmpty]_vars

\* the threads interleave inside notify_listeners, load_napp and unload_napp.
\* The only key that is added or removed while the controller runs is "x" of
\* a/n1, so a dict that has the size it had holds the keys it had, and the
\* position of an iterator is the item it has come to
NextRace ==
  \/ \E installed \in Listings({"a/n1", "a/n3"}, MaxInstalled) : start(installed)
  \/ stop_server
  \/ serve_forever_exit
  \/ stop_send_stop_signal
  \/ unload_napps_next
  \/ stop_join
  \/ \E b \in Buffers : handler_get(b)
  \/ \E b \in Buffers : notify_listeners_next(b)
  \/ \E p \in Named({"a.b"}) : buffer_put(p[1], p[2])
  \/ \E n \in {"a/n1"} : load_napp_begin(n, MaxNAppCalls)
  \/ load_napp_next
  \/ \E n \in {"a/n1"} : unload_napp_begin(n, MaxNAppCalls)
  \/ unload_napp_next

SpecRace == Init /\ [][NextRace]_vars

\* ENABLED <<handler_get(b)>>_vars: the thread is at the get of its loop and
\* its buffer holds an event
CanGet(b) == CanTake(b) /\ iter[b] = <<>>

\* the dispatcher threads are scheduled fairly: WF_vars(handler_get(b)) and
\* WF_vars(notify_listeners_next(b)) for each buffer, with ENABLED written out
FairRace ==
  /\ Init /\ [][NextRace]_vars
  /\ \A b \in Buffers :
       /\ ([]<>(~CanGet(b)) \/ []<><<handler_get(b)>>_vars)
       /\ ([]<>(iter[b] = <<>>) \/ []<><<notify_listeners_next(b)>>_vars)

\* NApps call send_to, remove_connection and remove_switch
NextFacade ==
  \/ NextWith(Accepted({"cA"}), {"a/n3"}, Listings({"a/n3"}, MaxInstalled),
              MaxNAppCalls)
  \/ \E destination \in ConnIds \cup Dpids : send_to(destination)
  \/ \E id \in ConnIds : remove_connection(id)
  \/ \E dpid \in Dpids : remove_switch(dpid)

SpecFacade == Init /\ [][NextFacade]_vars

(***************************************************************************)
(* What the claims speak of.                                               *)
(***************************************************************************)
\* the listeners registered under the patterns that match name
Matching(tbl, name) ==
  UNION {Range(tbl[i].listeners) : i \in {k \in DOMAIN tbl : re_match(tbl[k].regex, name)}}

IsCall(e) == e.op = "call"

\* the calls in a piece of log, in order
CallsIn(entries) == SelectSeq(entries, IsCall)

\* in a step: the dispatcher of b took an event that is no sentinel
\* and handed it to notify_listeners
Dispatched(b) == got'[b] = got[b] + 1 /\ ~IsShutdown(put[b][got'[b]])

\* in a step: what the step added to the log of b
Added(b) == SubSeq(log'[b], Len(log[b]) + 1, Len(log'[b]))

(***************************************************************************)
(* C1.  Listener exception isolation: when a dispatcher loop takes an      *)
(* event and a matching listener raises, every other listener matching the *)
(* event is still called with it and the loop keeps running (so later      *)
(* events of the buffer are delivered).                                    *)
(* The code has no try/except around listener(event): TLC finds a step in  *)
(* which "fail" raises, "rec" is not called and the thread ends.           *)
(***************************************************************************)
C1_ListenerIsolation ==
  [][\A b \in Buffers :
       Dispatched(b) =>
         /\ \A l \in Matching(events_listeners, put[b][got'[b]].name) :
              \E i \in DOMAIN Added(b) :
                Added(b)[i].op = "call" /\ Added(b)[i].listener = l
         /\ threads'[Handler(b)] = "running"]_vars

(***************************************************************************)
(* C2.  When stop() has returned, the two dispatcher threads and the TCP   *)
(* server thread have terminated.                                          *)
(***************************************************************************)
C2_StopJoinsThreads ==
  ctl = "stopped" => \A t \in ThreadNames : Terminated(t)

\* stop() has returned after the raw dispatcher delivered an event
C2_Witness ==
  /\ ctl = "stopped"
  /\ \A t \in ThreadNames : Terminated(t)
  /\ Len(log["raw"]) > 0

(***************************************************************************)
(* C3.  Liveness of shutdown: once stop() has made send_stop_signal() put  *)
(* the sentinel on every buffer, the raw and the app dispatcher each       *)
(* eventually take the sentinel and terminate, whatever was queued before  *)
(* it.  Under FairShutdown, where a handler takes an event and notifies    *)
(* its listeners in one step, the threads are scheduled fairly and no      *)
(* listener raises, the property holds.  Under FairRace, where the         *)
(* unload_napps of stop() runs between two turns of the loop of            *)
(* notify_listeners, it does not: unload_napp pops a key of the table a    *)
(* dispatcher is going through (C19), the dispatcher ends with             *)
(* RuntimeError and never takes the sentinel.  A finite run shows it:      *)
(* C3_SentinelEndsLoop says that once the sentinel is on the buffers, a    *)
(* running dispatcher that has not taken it yet does not end by an         *)
(* exception, which the liveness property needs, since a thread that ended *)
(* never takes the sentinel.                                               *)
(* It is stated for the runs where only start() and stop() load and unload *)
(* NApps (ncalls = 0).                                                     *)
(***************************************************************************)
Signalled == ctl \in {"unloading", "joining", "stop_raised", "stopped"}

C3_ShutdownTerminates ==
  \A b \in Buffers : Signalled ~> (threads[Handler(b)] = "stopped")

\* the dispatcher of b has taken the sentinel from its buffer
SentinelTaken(b) == \E i \in 1..got[b] : IsShutdown(put[b][i])

C3_SentinelEndsLoop ==
  [][\A b \in Buffers :
       ( /\ Signalled /\ ncalls = 0
         /\ threads[Handler(b)] = "running" /\ ~SentinelTaken(b) )
       => threads'[Handler(b)] # "crashed"]_vars

\* the sentinel was put behind two queued events, and both loops have ended
C3_Witness ==
  /\ Signalled
  /\ \A b \in Buffers : threads[Handler(b)] = "stopped"
  /\ Len(put["raw"]) >= 3
  /\ ~IsShutdown(put["raw"][1]) /\ ~IsShutdown(put["raw"][2])
  /\ got["raw"] = 3

(***************************************************************************)
(* C4.  Dispatcher shutdown scenario.  raw receives "a.b", the sentinel    *)
(* and "a.b" again, in this order, with a listener subscribed once to      *)
(* "a.b" since start(): the listener is called exactly once and the raw    *)
(* dispatcher has terminated; and no event put on raw after the sentinel   *)
(* is ever delivered.  The sentinel is a parameter: the claim names it     *)
(* "kytos/core.shutdown", the loop compares with "kyco/core.shutdown".     *)
(***************************************************************************)
\* the places (entry, position) where the table holds a listener for name
Registrations(tbl, name) ==
  {r \in UNION {{i} \X DOMAIN tbl[i].listeners : i \in DOMAIN tbl} :
     re_match(tbl[r[1]].regex, name)}

\* how often listener l is registered for name
Occurrences(tbl, l, name) ==
  Cardinality({r \in Registrations(tbl, name) : tbl[r[1]].listeners[r[2]] = l})

\* how often the dispatcher of b has called listener l
CallsOf(b, l) ==
  Cardinality({i \in DOMAIN log[b] : log[b][i].op = "call" /\ log[b][i].listener = l})

ScenarioPut(sentinel) ==
  /\ put["raw"] = << KycoEvent("a.b", NoConnection),
                     KycoEvent(sentinel, NoConnection),
                     KycoEvent("a.b", NoConnection) >>
  /\ ncalls = 0

ShutdownScenario(sentinel) ==
  (ScenarioPut(sentinel) /\ (got["raw"] = 3 \/ Terminated("raw_event_handler")))
  => /\ threads["raw_event_handler"] = "stopped"
     /\ \A l \in Matching(events_listeners, "a.b") :
          Occurrences(events_listeners, l, "a.b") = 1 => CallsOf("raw", l) = 1

NoDeliveryAfter(sentinel) ==
  \A i \in DOMAIN log["raw"], k \in DOMAIN put["raw"] :
    put["raw"][k].name = sentinel => log["raw"][i].idx < k

C5_ConnectionReplaced ==
  [][\A b \in Buffers : \A i \in DOMAIN Added(b) :
       Added(b)[i].op = "insert" =>
         LET c == Added(b)[i].arg
         IN /\ ConnId(c) \in DOMAIN connections'
            /\ connections'[ConnId(c)] = c
            /\ \A j \in DOMAIN Added(b) :
                 (Added(b)[j].op = "remove" /\ Added(b)[j].arg # c)
                   => Added(b)[j].arg \notin Range(connections')]_vars

\* a second Connection for the same (ip, port) has replaced the first
C5_Witness ==
  \E i, j \in DOMAIN log["raw"] :
    /\ i < j
    /\ log["raw"][i].op = "remove" /\ log["raw"][j].op = "insert"
    /\ log["raw"][i].idx = log["raw"][j].idx
    /\ log["raw"][i].arg # log["raw"][j].arg
    /\ ConnId(log["raw"][j].arg) \in DOMAIN connections
    /\ connections[ConnId(log["raw"][j].arg)] = log["raw"][j].arg
    /\ log["raw"][i].arg \notin Range(connections)

(***************************************************************************)
(* C6.  When a connection.new event replaces the registered Connection of  *)
(* its id, the replaced Connection is disconnected: once the event is      *)
(* processed, its socket is closed.                                        *)
(* remove_connection only pops the registry entry: TLC finds cA replaced   *)
(* by cB with the socket of cA left open.                                  *)
(***************************************************************************)
C6_ReplacedIsClosed ==
  \A b \in Buffers : \A i, j \in DOMAIN log[b] :
    ( /\ log[b][i].op = "remove" /\ log[b][j].op = "insert"
      /\ log[b][i].idx = log[b][j].idx
      /\ log[b][i].arg # log[b][j].arg )
    => log[b][i].arg \in closed

(***************************************************************************)
(* C7.  Switch supersede ordering: when new_connection processes a         *)
(* Connection whose dpid is a key of switches, that Switch is disconnected *)
(* strictly before the Connection is put in the connections registry; when *)
(* the dpid is None or no key of switches, no Switch is disconnected.      *)
(***************************************************************************)
C7_DisconnectBeforeInsert ==
  [][\A b \in Buffers : \A i \in DOMAIN Added(b) :
       Added(b)[i].op = "insert" =>
         LET dpid == ConnDpid(Added(b)[i].arg)
         IN IF dpid \in DOMAIN switches
            THEN /\ \E j \in 1..(i - 1) :
                      Added(b)[j].op = "disconnect" /\ Added(b)[j].arg = dpid
                 /\ switches[dpid] \in closed'
            ELSE /\ \A j \in DOMAIN Added(b) : Added(b)[j].op # "disconnect"
                 /\ closed' = closed]_vars

\* a Switch was disconnected and then the Connection with its dpid registered
C7_Witness ==
  \E i \in DOMAIN log["raw"] :
    /\ log["raw"][i].op = "disconnect"
    /\ i + 1 \in DOMAIN log["raw"]
    /\ log["raw"][i + 1].op = "insert"
    /\ ConnDpid(log["raw"][i + 1].arg) = log["raw"][i].arg
    /\ log["raw"][i].arg \in DOMAIN switches
    /\ switches[log["raw"][i].arg] \in closed

(***************************************************************************)
(* C8.  Per-buffer FIFO delivery: a listener is called with the events of  *)
(* one buffer in the order they were put on it (each call is for an event  *)
(* the dispatcher has taken, with that event's name, and the calls of one  *)
(* listener never go back to an earlier event), and the calls made for one *)
(* buffer never overlap: a call has returned or raised before the next.    *)
(***************************************************************************)
IsCallEnd(e) == e.op \in {"ret", "raise"}

C8_FifoDelivery ==
  \A b \in Buffers :
    /\ \A i \in DOMAIN log[b] :
         log[b][i].op = "call" =>
           /\ log[b][i].idx \in 1..got[b]
           /\ log[b][i].arg = put[b][log[b][i].idx].name
           /\ \A j \in DOMAIN log[b] :
                (i < j /\ log[b][j].op = "call"
                       /\ log[b][j].listener = log[b][i].listener)
                  => log[b][i].idx <= log[b][j].idx
           /\ \E j \in DOMAIN log[b] :
                /\ i < j
                /\ IsCallEnd(log[b][j])
                /\ log[b][j].listener = log[b][i].listener
                /\ log[b][j].idx = log[b][i].idx
                /\ \A k \in (i + 1)..(j - 1) :
                     ~IsCall(log[b][k]) /\ ~IsCallEnd(log[b][k])

\* one listener was called with two events of the same buffer, in put order
C8_Witness ==
  \E b \in Buffers : \E i, j \in DOMAIN log[b] :
    /\ i < j
    /\ log[b][i].op = "call" /\ log[b][j].op = "call"
    /\ log[b][i].listener = log[b][j].listener
    /\ log[b][i].idx < log[b][j].idx

(***************************************************************************)
(* C9.  notify_listeners(event) calls a listener exactly when it is        *)
(* registered under a pattern that matches event.name from its start.      *)
(* A listener that raises ends notify_listeners (C1): TLC finds "rec",     *)
(* registered under the matching pattern "x" behind "fail", not called.    *)
(***************************************************************************)
CalledIn(entries) == {entries[i].listener : i \in {k \in DOMAIN entries : IsCall(entries[k])}}

C9_CalledIffMatching ==
  [][\A b \in Buffers :
       Dispatched(b) =>
         CalledIn(Added(b)) = Matching(events_listeners, put[b][got'[b]].name)]_vars

\* C9, the scenario: a listener subscribed to kytos/core\.connection\..* is
\* called for kytos/core.connection.new and kytos/core.connection.lost, in
\* this order, and not for kytos/core.other (it holds under SpecMatch, where
\* no listener raises)
C9_PatternScenario ==
  ( /\ put["raw"] = << KycoEvent("kytos/core.connection.new", NoConnection),
                       KycoEvent("kytos/core.connection.lost", NoConnection),
                       KycoEvent("kytos/core.other", NoConnection) >>
    /\ ncalls = 0
    /\ got["raw"] = 3 )
  => \A i \in DOMAIN events_listeners :
       events_listeners[i].regex = ConnectionPattern =>
         \A l \in Range(events_listeners[i].listeners) :
           LET calls == SelectSeq(log["raw"],
                                  LAMBDA e : IsCall(e) /\ e.listener = l)
           IN /\ Len(calls) = 2
              /\ calls[1].idx = 1 /\ calls[2].idx = 2

(***************************************************************************)
(* C10.  Within the list of one pattern the listeners are called in the    *)
(* order of their registration, and a listener registered k times under    *)
(* matching patterns is called k times for each matching event.            *)
(* A listener that raises ends notify_listeners (C1): TLC finds "rec"      *)
(* registered once for "x" and called zero times.                          *)
(***************************************************************************)
\* a is s with some items left out
RECURSIVE IsSubSeq(_, _)
IsSubSeq(a, s) ==
  IF a = <<>> THEN TRUE
  ELSE IF s = <<>> THEN FALSE
  ELSE IF Head(a) = Head(s) THEN IsSubSeq(Tail(a), Tail(s))
  ELSE IsSubSeq(a, Tail(s))

\* the listeners called in a piece of log, in order
CalledSeq(entries) ==
  LET calls == CallsIn(entries) IN [i \in DOMAIN calls |-> calls[i].listener]

C10_RegistrationOrder ==
  [][\A b \in Buffers :
       Dispatched(b) =>
         LET name == put[b][got'[b]].name
             called == CalledSeq(Added(b))
         IN /\ \A i \in DOMAIN events_listeners :
                 re_match(events_listeners[i].regex, name)
                   => IsSubSeq(events_listeners[i].listeners, called)
            /\ \A l \in Matching(events_listeners, name) :
                 Cardinality({k \in DOMAIN called : called[k] = l})
                   = Occurrences(events_listeners, l, name)]_vars

(***************************************************************************)
(* C11.  Reload idempotence: unload_napp(n) followed by load_napp(n), with *)
(* any other NApps loaded, leaves the listener table as it was before the  *)
(* unload, n loaded: the same pattern keys and under each the same         *)
(* listeners in the same order (the listeners of n are those of its new    *)
(* instance; the order of the keys is not compared).                       *)
(* load_napp appends: TLC finds a/n3 loaded before a/n2, both under "a.b", *)
(* and the listener of a/n3 behind those of a/n2 after the reload.         *)
(***************************************************************************)
\* a table as a dict, with each listener named by its NApp and its method,
\* whatever instance it is bound to
Declared(tbl) ==
  [regex \in Keys(tbl) |->
     LET ls == ListenersOf(tbl, regex)
     IN [k \in DOMAIN ls |-> [napp |-> ls[k].napp, method |-> ls[k].method]]]

\* in a step: load_napp(napp_name) was called
Loading(napp_name) ==
  /\ ncalls' = ncalls + 1
  /\ Len(nlog') > Len(nlog)
  /\ nlog'[Len(nlog) + 1].op = "init"
  /\ nlog'[Len(nlog) + 1].napp = napp_name

C11_ReloadIdempotent ==
  [][(unloaded # <<>> /\ Loading(unloaded[1].napp))
       => Declared(events_listeners') = Declared(unloaded[1].tbl)]_vars

(***************************************************************************)
(* C12.  Load atomicity on failure: when load_napp(name) fails because     *)
(* Main() or start() of the NApp raises, the listener table is after the   *)
(* call as it was before it and the NApp is not in the NApp registry.      *)
(* start() is called last, after napps[name] and the listeners were set,   *)
(* and nothing undoes them: TLC finds load_napp("a/n5"), whose start()     *)
(* raises, leave a/n5 in the registry and its listener under "a.b".        *)
(***************************************************************************)
\* in a step: the call of load_napp(napp_name) was left by an exception
LoadFailed(napp_name) ==
  Loading(napp_name) /\ ~nlog'[Len(nlog')].ok

C12_LoadAtomicOnFailure ==
  [][\A n \in AllNApps :
       LoadFailed(n) => /\ events_listeners' = events_listeners
                        /\ n \notin NAppLoaded(napps')]_vars

(***************************************************************************)
(* C13.  Load failure isolation: when load_napps() enumerates several      *)
(* NApps and loading one of them fails, that NApp is not registered, and   *)
(* every other enumerated NApp is loaded: constructed, registered, its     *)
(* listeners in the table, its start() called.                             *)
(* The exception leaves the loops of load_napps: TLC finds a listing whose *)
(* first NApp fails and whose second NApp is never constructed.            *)
(***************************************************************************)
LoadFails(napp_name) == InitRaises(napp_name) \/ StartRaises(napp_name)

\* in a state: napp_name is loaded
Loaded(napp_name, tbl, reg, calls) ==
  /\ napp_name \in NAppLoaded(reg)
  /\ LET inst == NAppInst(reg, napp_name)
     IN /\ \E i \in DOMAIN calls : calls[i] = NAppCall("init", napp_name, inst, TRUE)
        /\ \E i \in DOMAIN calls : calls[i] = NAppCall("start", napp_name, inst, TRUE)
        /\ \A i \in DOMAIN NAppListeners(napp_name) :
             LET entry == NAppListeners(napp_name)[i]
             IN /\ entry.regex \in Keys(tbl)
                /\ Range(BoundMethods(napp_name, inst, entry.methods))
                     \subseteq Range(ListenersOf(tbl, entry.regex))

C13_LoadFailureIsolation ==
  [][\A installed \in Listings(AllNApps, MaxListed) :
       start(installed) =>
         \A i \in DOMAIN installed :
           IF LoadFails(installed[i])
           THEN installed[i] \notin NAppLoaded(napps')
           ELSE Loaded(installed[i], events_listeners', napps', nlog')]_vars

(***************************************************************************)
(* C14.  unload_napps(), as stop() calls it, unloads every NApp of the     *)
(* registry that is no core NApp and no core NApp: it returns, and then    *)
(* the registry holds exactly the core NApps it held, shutdown() was       *)
(* called once on each NApp that was no core NApp and on no core NApp, and *)
(* the listeners of the core NApps are in the table as they were.          *)
(***************************************************************************)
IsCoreEntry(e) == IsCoreNApp(e.name)

IsCoreListener(l) == IsCoreNApp(l.napp)

\* the listeners of core NApps in a table, per pattern, in order
CoreListeners(tbl) ==
  [regex \in {k \in Keys(tbl) : \E l \in Range(ListenersOf(tbl, k)) : IsCoreListener(l)}
     |-> SelectSeq(ListenersOf(tbl, regex), IsCoreListener)]

\* in a step: the calls made to NApps
AddedCalls == SubSeq(nlog', Len(nlog) + 1, Len(nlog'))

\* in a step: stop() made its call of unload_napps()
StopUnloading == ctl = "shutdown" /\ ctl' # "shutdown"

Others(ls, napp_name, inst) ==
  SelectSeq(ls, LAMBDA l : ~(l.napp = napp_name /\ l.inst = inst))

C15_UnloadNApp ==
  [][\A n \in AllNApps :
       (n \in NAppLoaded(napps) /\ unload_napp(n, MaxReloadCalls)) =>
         LET inst == NAppInst(napps, n)
         IN /\ unloaded' # <<>>
            /\ n \notin NAppLoaded(napps')
            /\ AddedCalls = << NAppCall("shutdown", n, inst, TRUE) >>
            /\ \A i \in DOMAIN NAppListeners(n) :
                 LET entry == NAppListeners(n)[i]
                 IN entry.regex \in Keys(events_listeners') =>
                      \A l \in Range(BoundMethods(n, inst, entry.methods)) :
                        l \notin Range(ListenersOf(events_listeners', entry.regex))
            /\ Keys(events_listeners') \subseteq Keys(events_listeners)
            /\ \A regex \in Keys(events_listeners) :
                 Others(ListenersOf(events_listeners, regex), n, inst)
                   = IF regex \in Keys(events_listeners')
                     THEN ListenersOf(events_listeners', regex)
                     ELSE <<>>]_vars

\* a/n1 was unloaded while a/n3, which shares the pattern "x" with it, was
\* loaded: the listener of a/n3 is still under "x"
C15_Witness ==
  /\ unloaded # <<>>
  /\ unloaded[1].napp = "a/n1"
  /\ "a/n1" \notin NAppLoaded(napps)
  /\ "a/n3" \in NAppLoaded(napps)
  /\ "x" \in Keys(events_listeners)
  /\ Len(ListenersOf(unloaded[1].tbl, "x")) = 3
  /\ Len(ListenersOf(events_listeners, "x")) = 1

(***************************************************************************)
(* C20.  After any sequence of completed load_napp and unload_napp calls,  *)
(* load_napp of a loaded name included, every listener of the table is the *)
(* built-in new_connection listener or a listener of a NApp instance the   *)
(* registry holds: no listener of a dropped or replaced instance is left.  *)
(* load_napp does not look whether the name is loaded: TLC finds a/n1      *)
(* loaded twice, the registry holding the second instance and the table    *)
(* the listeners of both.                                                  *)
(***************************************************************************)
\* the listeners in a table
Subscribed(tbl) == UNION {Range(tbl[i].listeners) : i \in DOMAIN tbl}

C20_ListenersOfLoadedNApps ==
  \A l \in Subscribed(events_listeners) :
    \/ l = new_connection_listener
    \/ /\ l.napp \in NAppLoaded(napps)
       /\ l.inst = NAppInst(napps, l.napp)

(***************************************************************************)
(* C16.  send_to(dest, bytes) with a destination that is not registered (a *)
(* dpid with no Switch, an (ip, port) with no Connection) fails with an    *)
(* error that says the destination is unknown, raised to the caller; it    *)
(* writes no bytes to any connection and leaves the connections and the    *)
(* switches registries as they were.  The error is the KeyError of the     *)
(* registry lookup.                                                        *)
(***************************************************************************)
Registered(destination) ==
  IF IsTuple(destination) THEN destination \in DOMAIN connections
  ELSE destination \in DOMAIN switches

\* the outcome of the last call of the facade
LastOutcome == result[Len(result)]

C16_SendToUnknown ==
  [][\A destination \in ConnIds \cup Dpids :
       (send_to(destination) /\ ~Registered(destination)) =>
         /\ LastOutcome' = Outcome("send_to", destination, "KeyError")
         /\ sent' = sent
         /\ connections' = connections
         /\ switches' = switches]_vars

\* send_to("0xff", bytes) was called with a Connection and a Switch
\* registered, none of them for 0xff: it failed and nothing was written
C16_Witness ==
  /\ result # <<>>
  /\ LastOutcome = Outcome("send_to", "0xff", "KeyError")
  /\ sent = <<>>
  /\ DOMAIN connections # {}
  /\ DOMAIN switches # {}
  /\ "0xff" \notin DOMAIN switches

(***************************************************************************)
(* C17.  remove_connection(id) and remove_switch(dpid) each return true    *)
(* when the key was in its registry before the call and false when it was  *)
(* not; after the call the key is absent and every other entry of the two  *)
(* registries is as it was.                                                *)
(* remove_switch has no return True: TLC finds a registered dpid removed   *)
(* and None returned.                                                      *)
(***************************************************************************)
Returned(present) == IF present THEN "True" ELSE "False"

C17_RemoveReturnsPresence ==
  [][/\ \A id \in ConnIds :
          remove_connection(id) =>
            /\ LastOutcome'.ret = Returned(id \in DOMAIN connections)
            /\ connections' = DictPop(connections, id)
            /\ switches' = switches
     /\ \A dpid \in Dpids :
          remove_switch(dpid) =>
            /\ LastOutcome'.ret = Returned(dpid \in DOMAIN switches)
            /\ switches' = DictPop(switches, dpid)
            /\ connections' = connections]_vars

(***************************************************************************)
(* C18.  The raw and the app dispatcher loop do the same with every event  *)
(* they take: get it, call notify_listeners(event), then end if it is the  *)
(* shutdown sentinel.  So when the same events were put on the two buffers *)
(* in the same order, the listener table has not changed, and each loop    *)
(* has taken all of them or has ended, the two loops have made the same    *)
(* listener calls in the same order, the calls for the sentinel included.  *)
(* raw_event_handler leaves its loop before notify_listeners: TLC finds    *)
(* the sentinel on both buffers and the listener of a/n6 for it called by  *)
(* the app loop only.                                                      *)
(***************************************************************************)
\* the names of the events put on buffer b, in order
NamesPut(b) == [i \in DOMAIN put[b] |-> put[b][i].name]

\* the listener calls the dispatcher of b made: event, name, listener
CallsMade(b) ==
  LET calls == CallsIn(log[b])
  IN [i \in DOMAIN calls |->
        [idx |-> calls[i].idx, name |-> calls[i].arg, listener |-> calls[i].listener]]

\* the dispatcher of b will take no further event
Drained(b) == got[b] = Len(put[b]) \/ Terminated(Handler(b))

C18_LoopsAlike ==
  ( /\ ctl = "started" /\ ncalls = 0
    /\ NamesPut("raw") = NamesPut("app")
    /\ Drained("raw") /\ Drained("app") )
  => CallsMade("raw") = CallsMade("app")

(***************************************************************************)
(* C19.  Registry access is mutually exclusive: no dispatcher thread goes  *)
(* through the listener table in notify_listeners while another thread is  *)
(* in the middle of load_napp or unload_napp (the unload_napp calls of     *)
(* stop() included); a reader sees the table as it was before or after a   *)
(* whole mutation.                                                         *)
(* The class takes no lock: TLC finds a dispatcher take a turn of the loop *)
(* of notify_listeners between two turns of the loop of load_napp.         *)
(***************************************************************************)
\* in a step: the dispatcher of b takes a turn of the loop of line 161
Iterating(b) == iter[b] # <<>> /\ iter'[b] # iter[b]

\* the main thread is inside load_napp or unload_napp
Mutating == mut # <<>> /\ mut[1].op \in {"load", "unload"}

C19_RegistryExclusion ==
  [][\A b \in Buffers : Iterating(b) => ~Mutating]_vars

(***************************************************************************)
(* C21.  After any sequence of completed load_napp and unload_napp calls,  *)
(* no pattern of the listener table maps to an empty list of listeners: a  *)
(* pattern is a key only while a listener is registered under it, also     *)
(* when a NApp declares a pattern with an empty list of methods.           *)
(* load_napp makes the key before it extends the list (lines 454-455), so  *)
(* the pattern "y" of a/n7 is a key with no listener from the load of a/n7 *)
(* to its unload.                                                          *)
(***************************************************************************)
EmptyPatterns(tbl) == {tbl[i].regex : i \in {j \in DOMAIN tbl : tbl[j].listeners = <<>>}}

C21_NoEmptyPattern == EmptyPatterns(events_listeners) = {}

=============================================================================
